---- MODULE Spec2Model ----
(***************************************************************************)
(* obspy.signal.trigger.triggerOnset: trigger on/off times of a            *)
(* characteristic function, as a state machine over the function's local   *)
(* lists on, of and pick.  Sample offsets are 0-based as in the source;    *)
(* the trace charfct is a TLA+ sequence, so sample i is charfct[i + 1].    *)
(* The second part models the routines that compute a characteristic       *)
(* function (recSTALTAPy, carlSTATrig, classicSTALTA, delayedSTALTA,       *)
(* zDetect) as one step each, from the samples and window lengths to the   *)
(* returned array or the exception raised.                                 *)
(***************************************************************************)
EXTENDS Integers, Sequences, FiniteSets, TLC

VARIABLES charfct, thres1, thres2, max_len, max_len_delete,
          on, of, pick, pc, ret, paired, entry, prev,
          samples, nsta, nlta, routine, result

vars == <<charfct, thres1, thres2, max_len, max_len_delete,
          on, of, pick, pc, ret, paired, entry, prev,
          samples, nsta, nlta, routine, result>>

\* the argument a, the window lengths and the outcome of a call of one of
\* the characteristic-function routines
cfvars == <<samples, nsta, nlta, routine, result>>

\* no characteristic-function routine has been called
NoCF ==
    /\ samples = <<>> /\ nsta = 0 /\ nlta = 0
    /\ routine = "none" /\ result = [err |-> "none", val |-> <<>>]

(* ------------------------------ bounds --------------------------------- *)
\* longest trace of the single-call specification
MaxLen == 5
\* largest finite max_len argument
MaxMaxLen == 2
\* cap on the number of emitted intervals (reached only by a diverging loop)
MaxPick == 4
\* longest trace of the repeated-call specification
PureLen == 2
\* longest trace of the specification with fairness
LiveLen == 4

\* sample values and thresholds: with thresholds 0 and 1 a sample is below
\* both (0), between them (1) or above both (2)
Levels == {0, 1, 2}
Thresholds == {0, 1}

\* 1e99 and 9e99 of the source are floats beyond TLC's integers; the stand-ins
\* keep the order  every index + every finite max_len < 1e99 < 9e99  that the
\* comparisons of the loop depend on (1e99 - on[0] is 1e99 in float arithmetic)
DeleteSentinel == 1000
DefaultMaxLen == 9000

MaxLens == (-1 .. MaxMaxLen) \cup {DefaultMaxLen}

SeqsUpTo(S, n) == UNION {[1..k -> S] : k \in 0..n}

Last(s) == s[Len(s)]

(* ------------------- candidate extraction, lines 293-309 ---------------- *)
\* Where with the comparison a >= thres
WhereInclusive(a, thres) ==
    SelectSeq([i \in 1..Len(a) |-> i - 1], LAMBDA i : a[i + 1] >= thres)

\* np.where(a > thres)[0]: the offsets of the samples above thres, increasing
Where(a, thres) ==
    SelectSeq([i \in 1..Len(a) |-> i - 1], LAMBDA i : a[i + 1] > thres)

\* the positions k (1-based) with np.diff(ind)[k] > 1
GapPositions(ind) ==
    SelectSeq([k \in 1..(Len(ind) - 1) |-> k], LAMBDA k : ind[k + 1] - ind[k] > 1)

\* ind2[np.diff(ind2) > 1]: the offsets right before a gap (the mask is one
\* shorter than ind2; the numpy of the source's time takes the missing last
\* entry as False)
GapEnds(ind) ==
    LET g == GapPositions(ind) IN [j \in 1..Len(g) |-> ind[g[j]]]

\* ind1[np.where(np.diff(ind1) > 1)[0] + 1]: the offsets right after a gap
GapStarts(ind) ==
    LET g == GapPositions(ind) IN [j \in 1..Len(g) |-> ind[g[j] + 1]]

\* on = [ind1[0]]; on.extend(...); with max_len_delete: on.extend([on[-1]])
OnCandidates(ind1, del) ==
    LET o == <<ind1[1]>> \o GapStarts(ind1)
    IN  IF del THEN Append(o, Last(o)) ELSE o

\* the final off-candidate: 1e99 (drop it) or ind2[-1] (include it)
FinalOff(ind2, del) ==
    IF del THEN DeleteSentinel ELSE Last(ind2)

\* of = [-1]; of.extend(...); of.extend([1e99]) or of.extend([ind2[-1]])
OfCandidates(ind2, del) ==
    Append(<<-1>> \o GapEnds(ind2), FinalOff(ind2, del))

\* pick bound to the list returned by the call before
InitialPickStale == ret

\* pick = []
InitialPick == <<>>

(* ------------------------ pairing loop, lines 312-322 ------------------- *)
RECURSIVE DropOnStrict(_, _)
\* DropOn with the comparison on[0] < of[0]
DropOnStrict(o, head) ==
    IF o = <<>> THEN <<>>
    ELSE IF o[1] < head THEN DropOnStrict(Tail(o), head) ELSE o

RECURSIVE DropOn(_, _)
\* while on[0] <= of[0]: on.pop(0)      (<<>>: on[0] of an empty list)
DropOn(o, head) ==
    IF o = <<>> THEN <<>>
    ELSE IF o[1] <= head THEN DropOn(Tail(o), head) ELSE o

RECURSIVE DropOf(_, _)
\* while of[0] < on[0]: of.pop(0)       (<<>>: of[0] of an empty list)
DropOf(f, head) ==
    IF f = <<>> THEN <<>>
    ELSE IF f[1] < head THEN DropOf(Tail(f), head) ELSE f

\* while on[-1] > of[0]
LoopGuard(o, f) == Last(o) > f[1]

\* TooLong with the bound max_len + 1
TooLongOffByOne(o, f, ml) == f[1] - o[1] > ml + 1

\* if of[0] - on[0] > max_len
TooLong(o, f, ml) == f[1] - o[1] > ml

\* Truncated with the offset on[0] + max_len + 1
TruncatedOffByOne(o, f, ml) == <<o[1] + ml + 1>> \o f

\* of.insert(0, on[0] + max_len)
Truncated(o, f, ml) == <<o[1] + ml>> \o f

\* One evaluation of the loop condition and, when it holds, one pass of the
\* loop body, from the local state s = [on, of, pick, paired].  The result
\* carries the branch taken: "return" (condition false), "fail" (IndexError
\* on an empty list), "delete" (continue), "truncate" or "pair".
Body(s, ml, del) ==
    IF s.on = <<>> \/ s.of = <<>> THEN [s EXCEPT !.branch = "fail"]
    ELSE IF ~LoopGuard(s.on, s.of) THEN [s EXCEPT !.branch = "return"]
    ELSE LET o1 == DropOn(s.on, s.of[1]) IN
      IF o1 = <<>> THEN [s EXCEPT !.on = o1, !.branch = "fail"]
      ELSE LET f1 == DropOf(s.of, o1[1]) IN
        IF f1 = <<>> THEN [s EXCEPT !.on = o1, !.of = f1, !.branch = "fail"]
        ELSE LET seen == Append(s.paired, <<o1[1], f1[1]>>) IN
          IF TooLong(o1, f1, ml)
          THEN IF del
               THEN [on |-> Tail(o1), of |-> f1, pick |-> s.pick,
                     paired |-> seen, branch |-> "delete"]
               ELSE LET f2 == Truncated(o1, f1, ml) IN
                    [on |-> o1, of |-> f2,
                     pick |-> Append(s.pick, <<o1[1], f2[1]>>),
                     paired |-> seen, branch |-> "truncate"]
          ELSE [on |-> o1, of |-> f1,
                pick |-> Append(s.pick, <<o1[1], f1[1]>>),
                paired |-> seen, branch |-> "pair"]

Locals == [on |-> on, of |-> of, pick |-> pick, paired |-> paired,
           branch |-> "loop"]

(* ------------------------------ actions --------------------------------- *)
Args == <<charfct, thres1, thres2, max_len, max_len_delete>>

\* the arguments of a call on a trace of at most n samples
ArgsIn(n) ==
    /\ charfct \in SeqsUpTo(Levels, n)
    /\ thres1 \in Thresholds
    /\ thres2 \in Thresholds
    /\ max_len \in MaxLens
    /\ max_len_delete \in BOOLEAN

Init ==
    /\ ArgsIn(MaxLen)
    /\ on = <<>> /\ of = <<>> /\ pick = <<>> /\ paired = <<>>
    /\ pc = "start" /\ ret = <<>>
    /\ entry = charfct
    /\ prev = <<>>
    /\ NoCF

\* lines 293-295: nothing exceeds thres1
EarlyReturn ==
    /\ pc = "start"
    /\ Where(charfct, thres1) = <<>>
    /\ pc' = "done" /\ ret' = <<>>
    /\ UNCHANGED <<charfct, thres1, thres2, max_len, max_len_delete,
                   on, of, pick, paired, entry, prev, cfvars>>

\* lines 293-311: the candidate lists and the empty pick list
Extract ==
    /\ pc = "start"
    /\ LET ind1 == Where(charfct, thres1)
           ind2 == Where(charfct, thres2)
       IN  /\ ind1 # <<>>
           /\ max_len_delete \/ ind2 # <<>>
           /\ on' = OnCandidates(ind1, max_len_delete)
           /\ of' = OfCandidates(ind2, max_len_delete)
    /\ pick' = InitialPick
    /\ pc' = "loop"
    /\ UNCHANGED <<charfct, thres1, thres2, max_len, max_len_delete,
                   ret, paired, entry, prev, cfvars>>

\* line 309: ind2[-1] of an empty ind2 raises IndexError
ExtractFail ==
    /\ pc = "start"
    /\ LET ind1 == Where(charfct, thres1)
           ind2 == Where(charfct, thres2)
       IN  /\ ind1 # <<>>
           /\ ~max_len_delete /\ ind2 = <<>>
           /\ on' = <<ind1[1]>> \o GapStarts(ind1)
           /\ of' = <<-1>> \o GapEnds(ind2)
    /\ pc' = "error"
    /\ UNCHANGED <<charfct, thres1, thres2, max_len, max_len_delete,
                   pick, ret, paired, entry, prev, cfvars>>

Iter(b) ==
    /\ LET s == Body(Locals, max_len, max_len_delete)
       IN  /\ s.branch = b
           /\ on' = s.on /\ of' = s.of /\ pick' = s.pick /\ paired' = s.paired
    /\ pc' = CASE b = "fail" -> "error"
               [] b = "return" -> "done"
               [] OTHER -> "loop"
    /\ ret' = IF b = "return" THEN pick ELSE ret
    /\ UNCHANGED <<charfct, thres1, thres2, max_len, max_len_delete,
                   entry, prev, cfvars>>

\* lines 312-322, the interval fits max_len
Pair ==
    /\ pc = "loop"
    /\ Len(pick) < MaxPick
    /\ Iter("pair")
\* lines 312-322, the interval is cut to max_len
Truncate ==
    /\ pc = "loop"
    /\ Len(pick) < MaxPick
    /\ Iter("truncate")
\* lines 312-320, the on-candidate is dropped
Delete ==
    /\ pc = "loop"
    /\ Iter("delete")
\* lines 312-316, on[0], on[-1] or of[0] of an empty list
IndexError ==
    /\ pc = "loop"
    /\ Iter("fail")
\* line 323
Return ==
    /\ pc = "loop"
    /\ Iter("return")

Next ==
    \/ EarlyReturn \/ Extract \/ ExtractFail
    \/ Pair \/ Truncate \/ Delete \/ IndexError \/ Return

Spec == Init /\ [][Next]_vars

InitLive ==
    /\ ArgsIn(LiveLen)
    /\ on = <<>> /\ of = <<>> /\ pick = <<>> /\ paired = <<>>
    /\ pc = "start" /\ ret = <<>>
    /\ entry = charfct
    /\ prev = <<>>
    /\ NoCF

\* the interpreter keeps executing a call that has a step to take
FairSpec == InitLive /\ [][Next]_vars /\ WF_vars(Next)

(* --------------------------- repeated calls ----------------------------- *)
\* arguments of the repeated calls: the classic configuration thres1 > thres2,
\* under which no call raises, a finite max_len and the default one
PureThresholds == {<<1, 0>>}
PureMaxLens == {0, DefaultMaxLen}

PureArgs ==
    SeqsUpTo(Levels, PureLen) \X PureThresholds \X PureMaxLens \X BOOLEAN

InitPure ==
    /\ \E a \in PureArgs :
          /\ charfct = a[1] /\ thres1 = a[2][1] /\ thres2 = a[2][2]
          /\ max_len = a[3] /\ max_len_delete = a[4]
    /\ on = <<>> /\ of = <<>> /\ pick = <<>> /\ paired = <<>>
    /\ pc = "start" /\ ret = <<>>
    /\ entry = charfct
    /\ prev = <<>>
    /\ NoCF

\* the caller calls triggerOnset again after a return: a new frame, whose
\* locals are bound by lines 293-311, while the caller still holds the value
\* returned before (ret).  prev remembers the arguments and the result of the
\* call that has just returned, entry the trace as it is passed in.
Call ==
    /\ pc = "done"
    /\ \E a \in PureArgs :
          /\ charfct' = a[1] /\ thres1' = a[2][1] /\ thres2' = a[2][2]
          /\ max_len' = a[3] /\ max_len_delete' = a[4]
    /\ entry' = charfct'
    /\ prev' = <<Args, ret>>
    /\ on' = <<>> /\ of' = <<>> /\ pick' = <<>> /\ paired' = <<>>
    /\ pc' = "start"
    /\ UNCHANGED <<ret, cfvars>>

\* ExtractFail and IndexError are enabled only when thres1 < thres2
NextPure ==
    \/ Call
    \/ EarlyReturn \/ Extract \/ Pair \/ Truncate \/ Delete \/ Return

SpecPure == InitPure /\ [][NextPure]_vars

(* ------------------- the call as a function of its arguments ------------ *)
RECURSIVE RunLoop(_, _, _)
\* the loop of lines 312-322 run to its end (or to the cap MaxPick)
RunLoop(s, ml, del) ==
    LET t == Body(s, ml, del)
    IN  IF t.branch \in {"fail", "return"} \/ Len(t.pick) >= MaxPick
        THEN t ELSE RunLoop(t, ml, del)

\* triggerOnset(charfct, thres1, thres2, max_len, max_len_delete): the record
\* [branch, pick], branch = "return" for a call that returns pick
triggerOnset(cf, t1, t2, ml, del) ==
    LET ind1 == Where(cf, t1)
        ind2 == Where(cf, t2)
    IN  IF ind1 = <<>> THEN [branch |-> "return", pick |-> <<>>]
        ELSE IF ~del /\ ind2 = <<>> THEN [branch |-> "fail", pick |-> <<>>]
        ELSE LET r == RunLoop([on |-> OnCandidates(ind1, del),
                               of |-> OfCandidates(ind2, del),
                               pick |-> <<>>, paired |-> <<>>,
                               branch |-> "loop"], ml, del)
             IN  [branch |-> r.branch, pick |-> r.pick]

(* ------------- float64 values of the characteristic functions ----------- *)
\* A float is the triple <<kind, n, d>>:
\*   <<"num", n, d>>   the rational n/d in lowest terms, d > 0 (the rounding
\*                     of float64 is left out: no comparison of the routines
\*                     depends on it for the sample values below),
\*   <<"nan", 0, 1>>   NaN, <<"inf", s, 1>> the infinity of sign s,
\*   <<"e99", n, d>>   (n/d) * 1e99, a quotient by the 1e-99 of line 83,
\*   <<"sqrt", n, d>>  sign(n) * sqrt(|n| / d), a quotient by np.std.
RECURSIVE GCD(_, _)
GCD(x, y) == IF y = 0 THEN x ELSE GCD(y, x % y)

Abs(x) == IF x < 0 THEN -x ELSE x

Sign(x) == IF x < 0 THEN -1 ELSE IF x > 0 THEN 1 ELSE 0

Num(n, d) == LET g == GCD(Abs(n), d) IN <<"num", n \div g, d \div g>>

Float(v) == Num(v, 1)

Zero == Float(0)

One == Float(1)

NaN == <<"nan", 0, 1>>

Inf(s) == <<"inf", s, 1>>

Neg(x) == <<x[1], -x[2], x[3]>>

AbsV(x) == <<x[1], Abs(x[2]), x[3]>>

\* IEEE addition
Add(x, y) ==
    IF x[1] = "nan" \/ y[1] = "nan" THEN NaN
    ELSE IF x[1] = "inf" /\ y[1] = "inf" THEN (IF x[2] = y[2] THEN x ELSE NaN)
    ELSE IF x[1] = "inf" THEN x
    ELSE IF y[1] = "inf" THEN y
    ELSE Num(x[2] * y[3] + y[2] * x[3], x[3] * y[3])

Sub(x, y) == Add(x, Neg(y))

\* IEEE multiplication
Mul(x, y) ==
    IF x[1] = "nan" \/ y[1] = "nan" THEN NaN
    ELSE IF x[1] = "inf" \/ y[1] = "inf"
         THEN (IF x[2] = 0 \/ y[2] = 0 THEN NaN ELSE Inf(Sign(x[2]) * Sign(y[2])))
    ELSE Num(x[2] * y[2], x[3] * y[3])

Sq(x) == Mul(x, x)

\* division of numpy arrays and numpy scalars: a zero divisor gives NaN or an
\* infinity (with a warning), never an exception
Div(x, y) ==
    IF x[1] = "nan" \/ y[1] = "nan" THEN NaN
    ELSE IF y[1] = "inf" THEN (IF x[1] = "inf" THEN NaN ELSE Zero)
    ELSE IF x[1] = "inf"
         THEN Inf(IF y[2] < 0 THEN -x[2] ELSE x[2])
    ELSE IF y[2] = 0 THEN (IF x[2] = 0 THEN NaN ELSE Inf(Sign(x[2])))
    ELSE Num(x[2] * y[3] * Sign(y[2]), x[3] * Abs(y[2]))

(* ------------------------- numpy arrays and outcomes -------------------- *)
\* the outcome of a call: the array returned, or the exception raised
Ok(v) == [err |-> "none", val |-> v]

Raise(e) == [err |-> e, val |-> <<>>]

\* np.zeros(n), np.ones(n) for n >= 0 (a negative n raises ValueError, which
\* the callers test before they build the array)
Zeros(n) == [i \in 1..n |-> Zero]

Ones(n) == [i \in 1..n |-> One]

Floats(s) == [i \in 1..Len(s) |-> Float(s[i])]

\* a slice bound k of a sequence of m items as Python resolves it
Clip(k, m) ==
    IF k < 0 THEN (IF k + m < 0 THEN 0 ELSE k + m)
    ELSE IF k > m THEN m ELSE k

\* x[lo:hi]
PySlice(x, lo, hi) ==
    LET l == Clip(lo, Len(x))
        h == Clip(hi, Len(x))
    IN  IF l >= h THEN <<>> ELSE SubSeq(x, l + 1, h)

\* x[0:hi] = v with the slice one item short
SetSliceShort(x, hi, v) ==
    [i \in 1..Len(x) |-> IF i < Clip(hi, Len(x)) THEN v ELSE x[i]]

\* x[0:hi] = v
SetSlice(x, hi, v) ==
    [i \in 1..Len(x) |-> IF i <= Clip(hi, Len(x)) THEN v ELSE x[i]]

\* the binary operations of arrays the routines use
Apply(op, u, v) == IF op = "+" THEN Add(u, v) ELSE Div(u, v)

\* x op y for two one-dimensional arrays, with numpy's broadcasting of an
\* array of one item; other unequal shapes raise ValueError
Broadcast(op, x, y) ==
    IF Len(x) = Len(y) THEN Ok([i \in 1..Len(x) |-> Apply(op, x[i], y[i])])
    ELSE IF Len(x) = 1 THEN Ok([i \in 1..Len(y) |-> Apply(op, x[1], y[i])])
    ELSE IF Len(y) = 1 THEN Ok([i \in 1..Len(x) |-> Apply(op, x[i], y[1])])
    ELSE Raise("ValueError")

\* x += y: the result has to have the shape of x
InPlaceAdd(x, y) ==
    IF Len(x) = Len(y) THEN Ok([i \in 1..Len(x) |-> Add(x[i], y[i])])
    ELSE IF Len(y) = 1 THEN Ok([i \in 1..Len(x) |-> Add(x[i], y[1])])
    ELSE Raise("ValueError")

\* x / n for an array x and an integer n
DivBy(x, n) == [i \in 1..Len(x) |-> Div(x[i], Float(n))]

RECURSIVE Smooth(_, _, _, _, _, _, _)
\* the passes i, i + 1, ... of the loop
\*     for i in xrange(n): acc = acc + np.concatenate((pad, src[i:m - n + i]))
\* (acc += ... when inplace)
Smooth(acc, pad, src, m, n, i, inplace) ==
    IF i >= n THEN Ok(acc)
    ELSE LET shifted == pad \o PySlice(src, i, m - n + i)
             r == IF inplace THEN InPlaceAdd(acc, shifted)
                  ELSE Broadcast("+", acc, shifted)
         IN  IF r.err # "none" THEN r
             ELSE Smooth(r.val, pad, src, m, n, i + 1, inplace)

RECURSIVE Sum(_)
Sum(x) == IF x = <<>> THEN Zero ELSE Add(x[1], Sum(Tail(x)))

\* np.mean(x): NaN for an empty array
Mean(x) == IF x = <<>> THEN NaN ELSE Div(Sum(x), Float(Len(x)))

(* ------------------------ recSTALTAPy, lines 78-99 ---------------------- *)
\* 1. / n for an integer n # 0
Recip(n) == IF n > 0 THEN Num(1, n) ELSE Num(-1, -n)

RECURSIVE RecLoop(_, _, _, _, _, _, _)
\* lines 91-98 from pass i.  lta is the pair <<r, c>> standing for the float
\* r + c * 1e-99: the 1e-99 of line 87 is lost as soon as r is not 0.  The
\* quotient of line 96 is one of Python floats: a zero lta raises
\* ZeroDivisionError, before line 97 looks at i.
RecLoop(x, ns, nl, i, sta, lta, cf) ==
    IF i >= Len(x) THEN Ok(cf)
    ELSE LET csta == Recip(ns)
             clta == Recip(nl)
             sq == Sq(x[i + 1])
             sta1 == Add(Mul(csta, sq), Mul(Sub(One, csta), sta))
             r == Add(Mul(clta, sq), Mul(Sub(One, clta), lta[1]))
             c == IF r # Zero THEN Zero ELSE Mul(Sub(One, clta), lta[2])
             q == IF r # Zero THEN Div(sta1, r)
                  ELSE IF sta1 = Zero THEN Zero
                  ELSE <<"e99", Div(sta1, c)[2], Div(sta1, c)[3]>>
         IN  IF r = Zero /\ c = Zero THEN Raise("ZeroDivisionError")
             ELSE RecLoop(x, ns, nl, i + 1, sta1, <<r, c>>,
                          [cf EXCEPT ![i + 1] = IF i < nl THEN Zero ELSE q])

\* recSTALTAPy(a, nsta, nlta): lines 84-85 divide Python floats by nsta and
\* nlta
recSTALTAPy(x, ns, nl) ==
    IF ns = 0 \/ nl = 0 THEN Raise("ZeroDivisionError")
    ELSE RecLoop(x, ns, nl, 1, Zero, <<Zero, One>>, Zeros(Len(x)))

(* ------------------------ carlSTATrig, lines 121-154 -------------------- *)
carlSTATrig(x, ns, nl, ratio, quiet) ==
    LET m == Len(x)
    IN  IF ns < 0 \/ nl < 0 THEN Raise("ValueError")
        ELSE
        LET s1 == Smooth(Zeros(m), Zeros(ns), x, m, ns, 0, TRUE)
        IN  IF s1.err # "none" THEN s1 ELSE
        LET sta == DivBy(s1.val, ns)
            l1 == Smooth(Zeros(m), Zeros(nl), sta, m, nl, 0, TRUE)
        IN  IF l1.err # "none" THEN l1 ELSE
        LET lta == PySlice(<<Zero>> \o DivBy(l1.val, nl), 0, m)
            dev == [i \in 1..m |-> AbsV(Sub(x[i], lta[i]))]
            s2 == Smooth(Zeros(m), Zeros(ns), dev, m, ns, 0, TRUE)
        IN  IF s2.err # "none" THEN s2 ELSE
        LET star == DivBy(s2.val, ns)
            l2 == Smooth(Zeros(m), Zeros(nl), star, m, nl, 0, TRUE)
        IN  IF l2.err # "none" THEN l2 ELSE
        LET ltar == DivBy(l2.val, nl)
            eta == [i \in 1..m |->
                      Sub(Sub(Sub(star[i], Mul(Float(ratio), ltar[i])),
                              AbsV(Sub(sta[i], lta[i]))),
                          Float(quiet))]
        IN  Ok(SetSlice(eta, nl, Float(-1)))

(* ----------------------- classicSTALTA, lines 175-197 ------------------- *)
classicSTALTA(x, ns, nl) ==
    LET m == Len(x)
        sq == [i \in 1..m |-> Sq(x[i])]
    IN  IF ns < 0 THEN Raise("ValueError")
        ELSE
        LET s == Smooth(Zeros(m), Zeros(ns), sq, m, ns, 0, FALSE)
        IN  IF s.err # "none" THEN s
            ELSE IF nl < 0 THEN Raise("ValueError")
            ELSE
        LET sta == DivBy(s.val, ns)
            l == Smooth(Zeros(m), Ones(nl), sq, m, nl, 0, FALSE)
        IN  IF l.err # "none" THEN l
            ELSE Broadcast("/", SetSlice(sta, nl, Zero), DivBy(l.val, nl))

(* ----------------------- delayedSTALTA, lines 215-226 ------------------- *)
\* a[k] is defined for -len(a) <= k < len(a)
InRange(x, k) == -Len(x) <= k /\ k < Len(x)

At(x, k) == IF k < 0 THEN x[k + Len(x) + 1] ELSE x[k + 1]

RECURSIVE DelayedLoop(_, _, _, _, _, _)
\* lines 221-224 from pass i
DelayedLoop(x, ns, nl, i, sta, lta) ==
    IF i >= Len(x) THEN Ok(<<sta, lta>>)
    ELSE IF ~(/\ InRange(x, i - ns) /\ InRange(x, i - ns - 1)
              /\ InRange(x, i - ns - nl - 1))
         THEN Raise("IndexError")
    ELSE LET s == Add(Div(Add(Sq(At(x, i)), Sq(At(x, i - ns))), Float(ns)),
                      At(sta, i - 1))
             l == Add(Div(Add(Sq(At(x, i - ns - 1)),
                              Sq(At(x, i - ns - nl - 1))), Float(nl)),
                      At(lta, i - 1))
         IN  DelayedLoop(x, ns, nl, i + 1,
                         [sta EXCEPT ![i + 1] = s], [lta EXCEPT ![i + 1] = l])

delayedSTALTA(x, ns, nl) ==
    LET r == DelayedLoop(x, ns, nl, 0, Zeros(Len(x)), Zeros(Len(x)))
    IN  IF r.err # "none" THEN r
        ELSE Broadcast("/", SetSlice(r.val[1], nl + ns + 50, Zero), r.val[2])

(* --------------------------- zDetect, lines 237-248 --------------------- *)
\* dev / np.sqrt(var)
OverRoot(dev, var) ==
    IF dev[1] # "num" \/ var[1] # "num" \/ var[2] = 0 THEN Div(dev, var)
    ELSE LET q == Num(Sign(dev[2]) * dev[2] * dev[2] * var[3],
                      dev[3] * dev[3] * var[2])
         IN  <<"sqrt", q[2], q[3]>>

zDetect(x, ns) ==
    LET m == Len(x)
        sq == [i \in 1..m |-> Sq(x[i])]
    IN  IF ns < 0 THEN Raise("ValueError")
        ELSE
        LET s == Smooth(Zeros(m), Zeros(ns), sq, m, ns, 0, FALSE)
        IN  IF s.err # "none" THEN s ELSE
        LET sta == s.val
            a_mean == Mean(sta)
            a_var == Mean([i \in 1..Len(sta) |-> Sq(Sub(sta[i], a_mean))])
        IN  Ok([i \in 1..Len(sta) |-> OverRoot(Sub(sta[i], a_mean), a_var)])

(* ------------------ calls of the characteristic functions --------------- *)
\* longest sample array
CFLen == 4

CFSamples == {-1, 0, 1}

\* window lengths: negative, zero, inside the array, its length and beyond
Windows == -1 .. (CFLen + 1)

CarlRatios == {1, 2}

CarlQuiets == {0, 1}

trigvars == <<charfct, thres1, thres2, max_len, max_len_delete,
              on, of, pick, pc, ret, paired, entry, prev>>

InitCF ==
    /\ charfct = <<>> /\ thres1 = 0 /\ thres2 = 0
    /\ max_len = DefaultMaxLen /\ max_len_delete = FALSE
    /\ on = <<>> /\ of = <<>> /\ pick = <<>> /\ paired = <<>>
    /\ pc = "idle" /\ ret = <<>> /\ entry = <<>> /\ prev = <<>>
    /\ samples \in SeqsUpTo(CFSamples, CFLen)
    /\ nsta \in Windows /\ nlta \in Windows
    /\ routine = "none" /\ result = Ok(<<>>)

\* a routine runs to its return or its exception
Returns(name, r) ==
    /\ routine' = name /\ result' = r
    /\ UNCHANGED <<samples, nsta, nlta, trigvars>>

CallRecSTALTAPy ==
    /\ routine = "none"
    /\ Returns("recSTALTAPy", recSTALTAPy(Floats(samples), nsta, nlta))

CallCarlSTATrig ==
    /\ routine = "none"
    /\ \E ratio \in CarlRatios, quiet \in CarlQuiets :
          Returns("carlSTATrig",
                  carlSTATrig(Floats(samples), nsta, nlta, ratio, quiet))

CallClassicSTALTA ==
    /\ routine = "none"
    /\ Returns("classicSTALTA", classicSTALTA(Floats(samples), nsta, nlta))

CallDelayedSTALTA ==
    /\ routine = "none"
    /\ Returns("delayedSTALTA", delayedSTALTA(Floats(samples), nsta, nlta))

CallZDetect ==
    /\ routine = "none"
    /\ Returns("zDetect", zDetect(Floats(samples), nsta))

NextCF ==
    \/ CallRecSTALTAPy \/ CallCarlSTATrig \/ CallClassicSTALTA
    \/ CallDelayedSTALTA \/ CallZDetect

SpecCF == InitCF /\ [][NextCF]_vars

(* ------------------------------- claims --------------------------------- *)
\* every interval of the list p starts no later than it ends and starts after
\* the interval before it has ended
Ordered(p) ==
    \A k \in 1..Len(p) :
        /\ p[k][1] <= p[k][2]
        /\ k > 1 => /\ p[k][1] > p[k - 1][1]
                    /\ p[k][1] > p[k - 1][2]

RECURSIVE HysteresisScan(_, _, _, _, _, _, _)
\* the per-sample two-state scan: from sample i on, in state BELOW (armed
\* FALSE) or ARMED since offset start, the intervals out found so far
HysteresisScan(cf, thr_on, thr_off, i, armed, start, out) ==
    IF i = Len(cf)
    THEN IF armed THEN Append(out, <<start, Len(cf) - 1>>) ELSE out
    ELSE IF ~armed
         THEN IF cf[i + 1] > thr_on
              THEN HysteresisScan(cf, thr_on, thr_off, i + 1, TRUE, i, out)
              ELSE HysteresisScan(cf, thr_on, thr_off, i + 1, FALSE, start, out)
         ELSE IF cf[i + 1] > thr_off
              THEN HysteresisScan(cf, thr_on, thr_off, i + 1, TRUE, start, out)
              ELSE HysteresisScan(cf, thr_on, thr_off, i + 1, FALSE, start,
                                  Append(out, <<start, i - 1>>))

\* C1: with thres1 >= thres2, the default max_len and max_len_delete false, a
\* call returns exactly the intervals of the per-sample hysteresis scan that
\* starts BELOW, opens an interval at the first sample above thres1, stays
\* ARMED while the samples are above thres2 and closes the interval at the
\* last sample before one at or below thres2, or at the end of the trace.
C1_ScanEquivalence ==
    (pc = "done" /\ thres1 >= thres2 /\ max_len = DefaultMaxLen
        /\ ~max_len_delete)
    => ret = HysteresisScan(charfct, thres1, thres2, 0, FALSE, 0, <<>>)

\* two intervals returned, one of them holding a sample that is not above
\* thres1 (the hysteresis kept it open) and the last one closed by the end
C1_Witness ==
    /\ pc = "done" /\ thres1 > thres2 /\ max_len = DefaultMaxLen
    /\ ~max_len_delete
    /\ Len(ret) = 2
    /\ \E i \in ret[1][1]..ret[1][2] : charfct[i + 1] <= thres1
    /\ ret[2][2] = Len(charfct) - 1

\* C2: with thres1 >= thres2 and max_len >= 0, after every pass of the pairing
\* loop and on return, every interval built so far has on <= off, the on
\* offsets increase strictly and every on is greater than the off before it.
C2_OrderedDisjoint ==
    (thres1 >= thres2 /\ max_len >= 0)
    => /\ Ordered(pick)
       /\ pc = "done" => Ordered(ret)

\* three intervals built by a truncating run that is still in the loop
C2_Witness ==
    /\ pc = "loop" /\ thres1 >= thres2 /\ max_len = 0 /\ ~max_len_delete
    /\ Len(pick) = 3
    /\ paired[1][2] > paired[1][1]

\* C3: with max_len_delete false and max_len >= 0 every emitted interval has
\* off - on <= max_len, and the interval emitted for a pair of candidates with
\* off - on > max_len is [on, on + max_len].
C3_TruncateToMaxLen ==
    (~max_len_delete /\ max_len >= 0)
    => /\ Len(paired) = Len(pick)
       /\ \A k \in 1..Len(pick) :
            /\ pick[k][2] - pick[k][1] <= max_len
            /\ paired[k][2] - paired[k][1] > max_len
               => pick[k] = <<paired[k][1], paired[k][1] + max_len>>
            /\ paired[k][2] - paired[k][1] <= max_len => pick[k] = paired[k]
       /\ pc = "done" => ret = pick

\* max_len = 1 on a span of five samples: the interval [0, 1] is returned
C3_Witness ==
    /\ pc = "done" /\ ~max_len_delete /\ max_len = 1
    /\ paired = << <<0, 4>> >>
    /\ ret = << <<0, 1>> >>

\* C4: with max_len_delete true, no emitted interval starts inside the span
\* [on, off] of a pair of candidates with off - on > max_len, and no emitted
\* interval has off - on > max_len.
C4_DeleteLongSpans ==
    max_len_delete
    => /\ \A j \in 1..Len(paired) :
            paired[j][2] - paired[j][1] > max_len
            => \A k \in 1..Len(pick) :
                 ~(paired[j][1] <= pick[k][1] /\ pick[k][1] <= paired[j][2])
       /\ \A k \in 1..Len(pick) : pick[k][2] - pick[k][1] <= max_len
       /\ pc = "done" => ret = pick

\* a span longer than max_len that ended inside the trace, with a second
\* on-candidate inside it, was dropped and nothing is returned for it
C4_Witness ==
    /\ pc = "done" /\ max_len_delete /\ max_len = 1 /\ thres1 > thres2
    /\ Len(paired) = 1
    /\ paired[1][2] - paired[1][1] > max_len
    /\ paired[1][2] < Len(charfct)
    /\ \E i \in (paired[1][1] + 1)..paired[1][2] :
          charfct[i + 1] > thres1 /\ charfct[i] <= thres1
    /\ ret = <<>>

\* C5: max_len_delete matters only for events longer than max_len: when every
\* interval returned for the default max_len and max_len_delete false has
\* off - on <= max_len, the call with max_len_delete true returns what the
\* call with max_len_delete false returns.
C5_DeleteOnlyLongEvents ==
    (pc = "done" /\ max_len_delete /\ thres1 >= thres2
        /\ LET natural == triggerOnset(charfct, thres1, thres2,
                                       DefaultMaxLen, FALSE).pick
           IN  \A k \in 1..Len(natural) :
                   natural[k][2] - natural[k][1] <= max_len)
    => ret = triggerOnset(charfct, thres1, thres2, max_len, FALSE).pick

\* C6: with thres1 >= thres2 and max_len >= 0 (the default included) every
\* emitted interval is a pair of sample offsets of the trace,
\* 0 <= on <= off <= len(charfct) - 1, for either value of max_len_delete.
C6_OffsetsInsideTrace ==
    (thres1 >= thres2 /\ max_len >= 0)
    => \A k \in 1..Len(pick) :
         /\ 0 <= pick[k][1]
         /\ pick[k][1] <= pick[k][2]
         /\ pick[k][2] <= Len(charfct) - 1

\* C7: no call fails, whatever the trace, the thresholds (thres1 < thres2
\* included) and max_len_delete are.
C7_NoErrorOutcome == pc # "error"

\* C8: a call on a trace with no sample above thres1 returns the empty
\* sequence without a pass of the pairing loop; and with max_len_delete false,
\* thres1 >= thres2 and max_len >= 0 a call on a trace with a sample above
\* thres1 returns at least one interval.
C8_EmptyIffNoTrigger ==
    pc = "done"
    => /\ (\A i \in 1..Len(charfct) : charfct[i] <= thres1)
          => ret = <<>> /\ paired = <<>> /\ on = <<>> /\ of = <<>>
       /\ (~max_len_delete /\ thres1 >= thres2 /\ max_len >= 0
              /\ \E i \in 1..Len(charfct) : charfct[i] > thres1)
          => ret # <<>>

\* a trace whose samples reach thres1 without exceeding it returns nothing
C8_WitnessEmpty ==
    /\ pc = "done" /\ ret = <<>> /\ thres1 > thres2
    /\ Len(charfct) = MaxLen
    /\ \E i \in 1..Len(charfct) : charfct[i] = thres1
    /\ \A i \in 1..Len(charfct) : charfct[i] <= thres1

\* C9 as claimed: with thres1 >= thres2 the pairing loop ends, for every
\* integer max_len and either value of max_len_delete.  The next pass of the
\* loop depends on on and of alone (max_len and max_len_delete are fixed), so
\* the loop ends only if no pass leaves on and of as it found them: a pass
\* that does is followed by the same pass for ever.
C9_TerminatesAnyMaxLen ==
    [][(pc = "loop" /\ pc' = "loop" /\ thres1 >= thres2)
          => <<on, of>>' # <<on, of>>]_vars

\* C9 amended: with thres1 >= thres2 the pairing loop ends for every integer
\* max_len when max_len_delete is true, and for every max_len >= 0 when it is
\* false.
C9_Terminates ==
    (pc = "start" /\ thres1 >= thres2 /\ (max_len >= 0 \/ max_len_delete))
        ~> (pc = "done" /\ ret = pick /\ Len(pick) <= Len(charfct))

\* the loop has ended after a pass that cut an interval to max_len and a pass
\* that emitted the next one
C9_Witness ==
    /\ pc = "done" /\ thres1 >= thres2 /\ max_len >= 0 /\ ~max_len_delete
    /\ Len(paired) = 2 /\ Len(ret) = 2
    /\ paired[1][2] - paired[1][1] > max_len
    /\ ~LoopGuard(on, of)

\* C10: a call returns what the call before it returned for the same
\* arguments, whatever calls came earlier, and leaves its trace argument as it
\* was passed in.
C10_Pure ==
    /\ entry = charfct
    /\ (pc = "done" /\ prev # <<>> /\ prev[1] = Args) => ret = prev[2]

\* the second of two calls with the same arguments has returned the same
\* interval as the first
C10_Witness ==
    /\ pc = "done" /\ prev # <<>> /\ prev[1] = Args
    /\ ~max_len_delete /\ Len(charfct) = PureLen
    /\ ret = prev[2] /\ Len(ret) = 1 /\ ret[1][2] > ret[1][1]

\* An emitted interval is untruncated when the pairing loop emitted the pair
\* of candidates as it found it (line 322 without line 321).
Untruncated(k) == \E j \in 1..Len(paired) : paired[j] = pick[k]

SampleAfterBelow(k) ==
    pick[k][2] + 1 < Len(charfct) => charfct[pick[k][2] + 2] <= thres2

NotAdjacent(k) == pick[k][1] > pick[k - 1][2] + 1

\* C11 as claimed: every emitted interval, those of runs with a finite
\* max_len included, is a maximal span: the sample right after its off index,
\* when there is one, does not exceed thres2, and the next interval starts
\* after off + 1.
C11_MaximalAnyMaxLen ==
    \A k \in 1..Len(pick) :
        SampleAfterBelow(k) /\ (k > 1 => NotAdjacent(k))

\* C11 amended: every emitted interval that was not truncated to max_len is
\* a maximal span: the sample right after its off index, when there is one,
\* does not exceed thres2, and the interval emitted after it starts after
\* off + 1.
C11_MaximalUntruncated ==
    \A k \in 1..Len(pick) :
        /\ Untruncated(k) => SampleAfterBelow(k)
        /\ (k > 1 /\ Untruncated(k - 1)) => NotAdjacent(k)

C11_Witness ==
    /\ pc = "done" /\ ~max_len_delete /\ max_len \in 0..MaxMaxLen
    /\ Len(ret) = 2 /\ ret = pick
    /\ Untruncated(1) /\ ~Untruncated(2)
    /\ ret[1][2] + 1 < Len(charfct)

\* The k-th emitted interval was truncated: the loop paired its on index
\* with a later off index and emitted [on, on + max_len] (lines 317-322).
Cut(k) == paired[k][1] = pick[k][1] /\ paired[k][2] > pick[k][2]

\* the 0-based indices after n at which the trace rises above thres1
RisesAfter(n) ==
    {i \in 1..(Len(charfct) - 1) :
        i > n /\ charfct[i + 1] > thres1 /\ charfct[i] <= thres1}

Least(S) == CHOOSE x \in S : \A y \in S : x <= y

\* C12: with max_len_delete false and max_len >= 0, the interval emitted
\* after a truncated interval [on, on + max_len] starts at the smallest
\* index i > on + max_len with charfct[i] > thres1 and charfct[i-1] <= thres1,
\* whether or not the trace fell to thres2 in between; when there is no such
\* index the truncated interval is the last one of the result.
C12_RestartAtNextRise ==
    (~max_len_delete /\ max_len >= 0) =>
        \A k \in 1..Len(pick) :
            Cut(k) =>
                /\ k < Len(pick) =>
                    /\ RisesAfter(pick[k][2]) # {}
                    /\ pick[k + 1][1] = Least(RisesAfter(pick[k][2]))
                /\ (k = Len(pick) /\ pc = "done") =>
                    RisesAfter(pick[k][2]) = {}

\* a truncated interval followed by a fresh one although no sample in
\* between fell to thres2
C12_Witness ==
    /\ pc = "done" /\ ~max_len_delete /\ max_len \in 0..MaxMaxLen
    /\ thres1 > thres2
    /\ Len(ret) = 2 /\ ret = pick /\ Cut(1)
    /\ \A i \in (ret[1][1] + 1)..(ret[2][1] + 1) : charfct[i] > thres2

\* a truncated interval that ends the result: the trace never rises again
C12_WitnessLast ==
    /\ pc = "done" /\ ~max_len_delete /\ max_len \in 0..MaxMaxLen
    /\ Len(ret) = 1 /\ ret = pick /\ Cut(1)
    /\ ret[1][2] + 2 < Len(charfct)

\* C18: with max_len_delete false, thres1 >= thres2 and max_len >= 0 every
\* emitted interval [on, off], truncated or not, lies inside one armed span
\* of the trace: charfct[on] > thres1 and charfct[k] > thres2 for every
\* index k with on <= k <= off.
C18_InsideArmedSpan ==
    (~max_len_delete /\ thres1 >= thres2 /\ max_len >= 0) =>
        \A k \in 1..Len(pick) :
            /\ 0 <= pick[k][1] /\ pick[k][1] <= pick[k][2]
            /\ pick[k][2] < Len(charfct)
            /\ charfct[pick[k][1] + 1] > thres1
            /\ \A i \in pick[k][1]..pick[k][2] : charfct[i + 1] > thres2

\* a truncated interval and an untruncated one in the same result, the
\* trace dipping to thres1 or below inside an interval
C18_Witness ==
    /\ pc = "done" /\ ~max_len_delete /\ thres1 > thres2
    /\ max_len \in 1..MaxMaxLen
    /\ Len(ret) = 2 /\ ret = pick
    /\ \E k \in 1..2 : Cut(k)
    /\ \E k \in 1..2 : Untruncated(k)
    /\ \E k \in 1..2 : \E i \in ret[k][1]..ret[k][2] : charfct[i + 1] <= thres1

(* ------------- claims about the characteristic functions ---------------- *)
\* the routine that ran takes the long window nlta (zDetect takes nsta only)
TakesLta == routine # "zDetect"

\* the window lengths the routine was called with lie inside the array
ValidWindows ==
    /\ 0 < nsta /\ nsta < Len(samples)
    /\ TakesLta => (0 < nlta /\ nlta < Len(samples))

\* 0 < nsta < nlta < N
OrderedWindows == 0 < nsta /\ nsta < nlta /\ nlta < Len(samples)

Returned == routine # "none" /\ result.err = "none"

\* C13: a routine called with nsta <= 0, nlta <= 0, nsta >= N or nlta >= N
\* neither returns an array nor fails by a division by zero or an
\* out-of-range access.
C13_InvalidWindowsRejected ==
    (routine # "none" /\ ~ValidWindows) =>
        result.err \notin {"none", "ZeroDivisionError", "IndexError"}

\* C14: every routine called with window lengths inside the array returns an
\* array as long as the samples.
C14_LengthPreserved ==
    (routine # "none" /\ ValidWindows) =>
        (result.err = "none" /\ Len(result.val) = Len(samples))

\* C15: recSTALTAPy and classicSTALTA called on all-zero samples with
\* 0 < nsta < nlta < N return 0 at every index.
C15_ZeroInZeroOut ==
    (/\ routine \in {"recSTALTAPy", "classicSTALTA"}
     /\ OrderedWindows
     /\ \A i \in 1..Len(samples) : samples[i] = 0) =>
        /\ result.err = "none"
        /\ Len(result.val) = Len(samples)
        /\ \A i \in 1..Len(result.val) : result.val[i] = Zero

C17_DelayedWarmUp ==
    (routine = "delayedSTALTA" /\ OrderedWindows) =>
        /\ result.err = "none"
        /\ Len(result.val) = Len(samples)
        /\ \A i \in 1..Len(result.val) :
              i <= nlta + nsta + 50 => result.val[i] = Zero

====
